---- MODULE Spec2Model ----
(***************************************************************************)
(* Batched bulk-operation engine of the Salesforce upload script:          *)
(*   src/src/utils.py          chunk_list                                  *)
(*   src/scripts/upload_data.py build_sobject_collection_payload,          *)
(*                              send_sobject_collection_request,           *)
(*                              perform_operation_in_batches               *)
(*                                                                         *)
(* Python values are modelled as follows.                                  *)
(*   list            a sequence                                            *)
(*   dict            a function whose DOMAIN is the dict's key set         *)
(*   scalar value v  the one-field record [scalar |-> v], so that a dict   *)
(*                   may hold scalars and nested dicts under its keys      *)
(*   None            NoneVal                                               *)
(*   string built    the sequence of the pieces it is concatenated from    *)
(*   from pieces     (f-strings, str.join); the empty string is <<>>       *)
(*   isinstance      the raw result of a remote call carries its type:     *)
(*                   [type |-> "list", items |-> ...] or                   *)
(*                   [type |-> "dict", dict |-> ...]                       *)
(*   raise           the kind of the error, named after the raise site     *)
(***************************************************************************)
EXTENDS Integers, Sequences, FiniteSets

VARIABLES
    pc,                 \* position of the call: "call", "returned", "raised"
    data,               \* chunk_list: the list to split
    chunk_size,         \* chunk_list: the chunk size
    chunks,             \* chunk_list: the returned list of chunks
    records,            \* builder: the batch
    object_name,        \* builder: the target object type
    operation,          \* builder: the operation
    external_id_field,  \* builder: the external id field, or NoneVal
    payload,            \* builder: the returned payload
    error,              \* kind of the error raised, or NoError
    chunk_idx,          \* orchestrator: number of the chunk in hand, from 1
    remote,             \* outcome of the last sf.sf.restful call
    result,             \* dispatcher: the raw result returned
    calls,              \* the sf.sf.restful calls made so far, in order
    all_successes,      \* orchestrator: accumulated success entries
    all_failures,       \* orchestrator: accumulated failure entries
    log,                \* logger.warning and logger.error entries, in order
    returned,           \* orchestrator: the pair returned, <<>> while none is
    origin,             \* history: input position of each accumulated entry
    all_ok,             \* history: every remote call so far answered each
                        \* record sent with a success
    exit_status         \* main: <<the exit status of the process>>, <<>>
                        \* while it runs

runVars == <<chunk_idx, remote, result, calls, all_successes, all_failures,
             log, returned, origin, all_ok, exit_status>>

vars == <<pc, data, chunk_size, chunks, records, object_name, operation,
          external_id_field, payload, error, chunk_idx, remote, result,
          calls, all_successes, all_failures, log, returned, origin, all_ok,
          exit_status>>

-----------------------------------------------------------------------------
(* Bounds of the model *)

MaxLen == 4          \* longest list given to chunk_list
MaxItem == 2         \* list items are 1..MaxItem
MaxSize == 5         \* largest chunk size
MaxNeg == 2          \* chunk sizes go down to -MaxNeg
MaxBatch == 2        \* longest batch given to the builder

-----------------------------------------------------------------------------
(* Python primitives *)

NoneVal == "None"
NoError == "NoError"
NoResult == "NoResult"

\* Variant of RangeLen: the stop value is included, as in range(0, stop + 1, step)
RangeLenInclusive(stop, step) ==
    IF step > 0
    THEN (IF stop < 0 THEN 0 ELSE (stop \div step) + 1)
    ELSE 0

\* len(range(0, stop, step)) for step # 0
RangeLen(stop, step) ==
    IF step > 0
    THEN (IF stop <= 0 THEN 0 ELSE ((stop - 1) \div step) + 1)
    ELSE 0      \* a negative step counts down from 0: nothing precedes stop >= 0

\* range(0, stop, step) as the sequence of its values, for step # 0
PyRange(stop, step) == [k \in 1..RangeLen(stop, step) |-> (k - 1) * step]

Min(a, b) == IF a < b THEN a ELSE b
Max(a, b) == IF a > b THEN a ELSE b

\* a slice bound as Python clips it: negative counts from the end
ClipIndex(j, n) == IF j < 0 THEN Max(j + n, 0) ELSE Min(j, n)

\* Variant of PySlice: the slice stops one element early, s[i:j - 1]
PySliceShort(s, i, j) ==
    LET lo == ClipIndex(i, Len(s))
        hi == ClipIndex(j - 1, Len(s))
    IN  IF hi <= lo THEN <<>> ELSE [k \in 1..(hi - lo) |-> s[lo + k]]

\* s[i:j] of a list s (0-based, j exclusive)
PySlice(s, i, j) ==
    LET lo == ClipIndex(i, Len(s))
        hi == ClipIndex(j, Len(s))
    IN  IF hi <= lo THEN <<>> ELSE [k \in 1..(hi - lo) |-> s[lo + k]]

\* Variant of DictUpdate: keys already in d keep their value
DictUpdateKeep(d, r) ==
    [k \in DOMAIN d \cup DOMAIN r |-> IF k \in DOMAIN d THEN d[k] ELSE r[k]]

\* d.update(r)
DictUpdate(d, r) ==
    [k \in DOMAIN d \cup DOMAIN r |-> IF k \in DOMAIN r THEN r[k] ELSE d[k]]

\* d[key] = value
DictSet(d, key, value) ==
    [k \in DOMAIN d \cup {key} |-> IF k = key THEN value ELSE d[k]]

-----------------------------------------------------------------------------
(* chunk_list *)

\* Variant of ChunkComprehension: the range covers at least one start, as in
\* range(0, max(len(data), 1), chunk_size)
ChunkComprehensionAtLeastOne(d, size) ==
    LET starts == PyRange(Max(Len(d), 1), size)
    IN  [k \in 1..Len(starts) |-> PySlice(d, starts[k], starts[k] + size)]

\* the comprehension [data[i:i + chunk_size] for i in range(0, len(data), chunk_size)]
ChunkComprehension(d, size) ==
    LET starts == PyRange(Len(d), size)
    IN  [k \in 1..Len(starts) |-> PySlice(d, starts[k], starts[k] + size)]

\* chunk_list(data, chunk_size): range() raises ValueError for a zero step
chunk_list(d, size) ==
    IF size = 0
    THEN [error |-> "InvalidArgument", value |-> NoResult]
    ELSE [error |-> NoError, value |-> ChunkComprehension(d, size)]

-----------------------------------------------------------------------------
(* build_sobject_collection_payload *)

Ok(v) == [error |-> NoError, value |-> v]
Raise(kind) == [error |-> kind, value |-> NoResult]

\* Python truth of an optional string: None and "" are false
Truthy(s) == s # NoneVal /\ s # ""

\* the base record: {"attributes": {"type": object_name, "operation": operation}}
BaseSObject(obj, op) == [attributes |-> [type |-> obj, operation |-> op]]

\* sobject["attributes"]["externalIdField"] = external_id_field
WithExternalIdField(sobject, ext) ==
    DictSet(sobject, "attributes",
            DictSet(sobject["attributes"], "externalIdField", ext))

\* Variant of SObject: update does not check that the record has an Id
SObjectNoIdCheck(r, obj, op, ext) ==
    CASE op = "insert" -> Ok(DictUpdate(BaseSObject(obj, op), r))
      [] op = "update" -> Ok(DictUpdate(BaseSObject(obj, op), r))
      [] op = "delete" ->
            IF "Id" \notin DOMAIN r
            THEN Raise("MissingIdentifier")
            ELSE Ok(DictSet(BaseSObject(obj, op), "Id", r["Id"]))
      [] op = "upsert" ->
            IF ~Truthy(ext)
            THEN Raise("ConfigurationError")
            ELSE IF ext \notin DOMAIN r
            THEN Raise("MissingIdentifier")
            ELSE Ok(DictUpdate(WithExternalIdField(BaseSObject(obj, op), ext), r))
      [] OTHER -> Raise("InvalidArgument")

\* Variant of SObject: delete copies every field of the record, as update does
SObjectDeleteAllFields(r, obj, op, ext) ==
    CASE op = "insert" -> Ok(DictUpdate(BaseSObject(obj, op), r))
      [] op = "update" ->
            IF "Id" \notin DOMAIN r
            THEN Raise("MissingIdentifier")
            ELSE Ok(DictUpdate(BaseSObject(obj, op), r))
      [] op = "delete" ->
            IF "Id" \notin DOMAIN r
            THEN Raise("MissingIdentifier")
            ELSE Ok(DictUpdate(BaseSObject(obj, op), r))
      [] op = "upsert" ->
            IF ~Truthy(ext)
            THEN Raise("ConfigurationError")
            ELSE IF ext \notin DOMAIN r
            THEN Raise("MissingIdentifier")
            ELSE Ok(DictUpdate(WithExternalIdField(BaseSObject(obj, op), ext), r))
      [] OTHER -> Raise("InvalidArgument")

\* the body of the loop over the batch: the wire record of r, or the error raised
SObject(r, obj, op, ext) ==
    CASE op = "insert" -> Ok(DictUpdate(BaseSObject(obj, op), r))
      [] op = "update" ->
            IF "Id" \notin DOMAIN r
            THEN Raise("MissingIdentifier")
            ELSE Ok(DictUpdate(BaseSObject(obj, op), r))
      [] op = "delete" ->
            IF "Id" \notin DOMAIN r
            THEN Raise("MissingIdentifier")
            ELSE Ok(DictSet(BaseSObject(obj, op), "Id", r["Id"]))
      [] op = "upsert" ->
            IF ~Truthy(ext)
            THEN Raise("ConfigurationError")
            ELSE IF ext \notin DOMAIN r
            THEN Raise("MissingIdentifier")
            ELSE Ok(DictUpdate(WithExternalIdField(BaseSObject(obj, op), ext), r))
      [] OTHER -> Raise("InvalidArgument")

\* Variant of BuildLoop: each wire record is put in front of the list
RECURSIVE BuildLoopReversed(_, _, _, _, _, _)
BuildLoopReversed(recs, obj, op, ext, i, acc) ==
    IF i > Len(recs)
    THEN Ok([allOrNone |-> FALSE, records |-> acc])
    ELSE LET res == SObject(recs[i], obj, op, ext)
         IN  IF res.error # NoError
             THEN Raise(res.error)
             ELSE BuildLoopReversed(recs, obj, op, ext, i + 1, <<res.value>> \o acc)

\* Variant of BuildLoop: a record that violates a precondition is left out of
\* the payload instead of being raised
RECURSIVE BuildLoopSkipInvalid(_, _, _, _, _, _)
BuildLoopSkipInvalid(recs, obj, op, ext, i, acc) ==
    IF i > Len(recs)
    THEN Ok([allOrNone |-> FALSE, records |-> acc])
    ELSE LET res == SObject(recs[i], obj, op, ext)
         IN  IF res.error # NoError
             THEN BuildLoopSkipInvalid(recs, obj, op, ext, i + 1, acc)
             ELSE BuildLoopSkipInvalid(recs, obj, op, ext, i + 1,
                                       Append(acc, res.value))

\* the loop: records i.. of the batch, acc the wire records appended so far
RECURSIVE BuildLoop(_, _, _, _, _, _)
BuildLoop(recs, obj, op, ext, i, acc) ==
    IF i > Len(recs)
    THEN Ok([allOrNone |-> FALSE, records |-> acc])
    ELSE LET res == SObject(recs[i], obj, op, ext)
         IN  IF res.error # NoError
             THEN Raise(res.error)
             ELSE BuildLoop(recs, obj, op, ext, i + 1, Append(acc, res.value))

build_sobject_collection_payload(recs, obj, op, ext) ==
    BuildLoop(recs, obj, op, ext, 1, <<>>)

-----------------------------------------------------------------------------
(* send_sobject_collection_request *)

\* a value that is a dict, not a scalar
IsDict(v) == "scalar" \notin DOMAIN v

\* d.get(key, default)
DictGet(d, key, default) == IF key \in DOMAIN d THEN d[key] ELSE default

\* the text of a scalar value, as a string
Text(v) == <<v.scalar>>

\* sep.join(pieces), for strings sep and pieces
RECURSIVE Join(_, _)
Join(sep, pieces) ==
    IF Len(pieces) = 0 THEN <<>>
    ELSE IF Len(pieces) = 1 THEN pieces[1]
    ELSE pieces[1] \o sep \o Join(sep, Tail(pieces))

\* json.dumps(payload) if payload is not None else None: the request body
JsonDumps(p) == <<p>>
NoBody == <<>>

Request(endpoint, method, body) ==
    [endpoint |-> endpoint, method |-> method, data |-> body]

\* ids = [record["Id"] for record in payload["records"]]
DeleteIds(p) == [i \in 1..Len(p.records) |-> Text(p.records[i]["Id"])]

\* the endpoint, method and body chosen for a payload whose first record is
\* tagged with operation op (lines 144-164)
RouteOperation(p, attrs, op) ==
    CASE op = "insert" ->
            Ok(Request(<<"composite/sobjects">>, "POST", JsonDumps(p)))
      [] op = "update" ->
            Ok(Request(<<"composite/sobjects">>, "PATCH", JsonDumps(p)))
      [] op = "delete" ->
            IF \E i \in 1..Len(p.records) : "Id" \notin DOMAIN p.records[i]
            THEN Raise("KeyError")
            ELSE Ok(Request(<<"composite/sobjects?ids=">> \o Join(<<",">>, DeleteIds(p)),
                            "DELETE", NoBody))
      [] op = "upsert" ->
            IF ~Truthy(DictGet(attrs, "externalIdField", NoneVal))
            THEN Raise("ConfigurationError")
            ELSE IF "type" \notin DOMAIN attrs
            THEN Raise("KeyError")
            ELSE Ok(Request(<<"composite/sobjects/", attrs["type"], "/",
                              attrs["externalIdField"]>>, "PATCH", JsonDumps(p)))
      [] OTHER -> Raise("InvalidArgument")

\* lines 140-164 and 173: the request to make, or the error raised before it
Route(p) ==
    IF ~("records" \in DOMAIN p /\ Len(p.records) > 0)
    THEN Raise("EmptyPayload")
    ELSE LET first_record == p.records[1]
         IN  IF "attributes" \notin DOMAIN first_record
             THEN Raise("KeyError")
             ELSE IF ~IsDict(first_record["attributes"])
             THEN Raise("AttributeError")
             ELSE RouteOperation(p, first_record["attributes"],
                                 DictGet(first_record["attributes"],
                                         "operation", "insert"))

\* Variant of Dispatch: an exception of the remote call is swallowed and an
\* empty response list is returned
DispatchSwallow(p, outcome) ==
    LET route == Route(p)
    IN  IF route.error # NoError
        THEN [error |-> route.error, value |-> NoResult, sent |-> <<>>,
              logged |-> <<[level |-> "error", kind |-> route.error]>>]
        ELSE IF outcome.raised
        THEN [error |-> NoError, value |-> <<>>, sent |-> <<route.value>>,
              logged |-> <<[level |-> "error", kind |-> "TransportError"]>>]
        ELSE [error |-> NoError, value |-> outcome.value, sent |-> <<route.value>>,
              logged |-> <<>>]

\* Variant of Dispatch: the remote call is made a second time when it raises
DispatchRetry(p, outcome) ==
    LET route == Route(p)
    IN  IF route.error # NoError
        THEN [error |-> route.error, value |-> NoResult, sent |-> <<>>,
              logged |-> <<[level |-> "error", kind |-> route.error]>>]
        ELSE IF outcome.raised
        THEN [error |-> "TransportError", value |-> NoResult,
              sent |-> <<route.value, route.value>>,
              logged |-> <<[level |-> "error", kind |-> "TransportError"]>>]
        ELSE [error |-> NoError, value |-> outcome.value, sent |-> <<route.value>>,
              logged |-> <<>>]

\* send_sobject_collection_request(sf, payload, logger), given the outcome of
\* sf.sf.restful should the call be made: the error raised or the value
\* returned, the remote call made, what logger.error received
Dispatch(p, outcome) ==
    LET route == Route(p)
    IN  IF route.error # NoError
        THEN [error |-> route.error, value |-> NoResult, sent |-> <<>>,
              logged |-> <<[level |-> "error", kind |-> route.error]>>]
        ELSE IF outcome.raised
        THEN [error |-> "TransportError", value |-> NoResult,
              sent |-> <<route.value>>,
              logged |-> <<[level |-> "error", kind |-> "TransportError"]>>]
        ELSE [error |-> NoError, value |-> outcome.value, sent |-> <<route.value>>,
              logged |-> <<>>]

\* the outcome of sf.sf.restful: an exception
RemoteRaises == [raised |-> TRUE, returned |-> FALSE]
\* the outcome of sf.sf.restful: a value
RemoteReturns(v) == [raised |-> FALSE, returned |-> TRUE, value |-> v]

\* a raw result that is a list, a raw result that is a dict
ListResult(l) == [type |-> "list", items |-> l]
DictResult(d) == [type |-> "dict", dict |-> d]

-----------------------------------------------------------------------------
(* perform_operation_in_batches: the reconciliation of one chunk *)

\* Variant of ResultRecords: the list is looked up under "records"
ResultRecordsWrongKey(res) ==
    IF res.type = "dict" THEN DictGet(res.dict, "records", <<>>) ELSE res.items

\* result.get("results", []) if isinstance(result, dict) else result
ResultRecords(res) ==
    IF res.type = "dict" THEN DictGet(res.dict, "results", <<>>) ELSE res.items

\* Variant of Zip: the chunk is paired from its end
ZipFromEnd(chunk, resps) ==
    [i \in 1..Min(Len(chunk), Len(resps)) |->
        [original |-> chunk[Len(chunk) + 1 - i], response |-> resps[i]]]

\* zip(chunk, result_records)
Zip(chunk, resps) ==
    [i \in 1..Min(Len(chunk), Len(resps)) |->
        [original |-> chunk[i], response |-> resps[i]]]

\* Variant of IsSuccess: a response counts as a success unless it has errors
IsSuccessUnlessErrors(response) == Len(DictGet(response, "errors", <<>>)) = 0

\* Variant of IsSuccess: a response without a success flag counts as a
\* success, res.get("success", True)
IsSuccessByDefault(response) == DictGet(response, "success", TRUE)

\* response.get("success", False)
IsSuccess(response) == DictGet(response, "success", FALSE)

\* "; ".join(e.get("message", "") for e in errors)
CombinedErrors(response) ==
    LET errors == DictGet(response, "errors", <<>>)
    IN  Join(<<"; ">>, [k \in 1..Len(errors) |->
                          DictGet(errors[k], "message", <<>>)])

SuccessEntry(original, response) ==
    [record |-> original, id |-> DictGet(response, "id", NoneVal)]

FailureEntry(original, response) ==
    [record |-> original, error |-> CombinedErrors(response)]

\* Variant of ReconcileLoop: each entry is put in front of its list
RECURSIVE ReconcileLoopPrepend(_, _, _, _)
ReconcileLoopPrepend(pairs, i, succ, fail) ==
    IF i > Len(pairs)
    THEN [successes |-> succ, failures |-> fail]
    ELSE IF IsSuccess(pairs[i].response)
    THEN ReconcileLoopPrepend(pairs, i + 1,
             <<SuccessEntry(pairs[i].original, pairs[i].response)>> \o succ,
             fail)
    ELSE ReconcileLoopPrepend(pairs, i + 1, succ,
             <<FailureEntry(pairs[i].original, pairs[i].response)>> \o fail)

\* the loop over the pairs (lines 258-270), from pair i, appending to the
\* two lists
RECURSIVE ReconcileLoop(_, _, _, _)
ReconcileLoop(pairs, i, succ, fail) ==
    IF i > Len(pairs)
    THEN [successes |-> succ, failures |-> fail]
    ELSE IF IsSuccess(pairs[i].response)
    THEN ReconcileLoop(pairs, i + 1,
             Append(succ, SuccessEntry(pairs[i].original, pairs[i].response)),
             fail)
    ELSE ReconcileLoop(pairs, i + 1, succ,
             Append(fail, FailureEntry(pairs[i].original, pairs[i].response)))

CountMismatch == [level |-> "warning", kind |-> "CountMismatch"]

\* Variant of Reconcile: a response count that differs from the chunk's is an error
ReconcileStrict(chunk, res, succ, fail) ==
    LET result_records == ResultRecords(res)
        lists == ReconcileLoop(Zip(chunk, result_records), 1, succ, fail)
    IN  IF Len(result_records) # Len(chunk)
        THEN [error |-> "CountMismatch", successes |-> succ, failures |-> fail,
              logged |-> <<>>]
        ELSE [error |-> NoError, successes |-> lists.successes,
              failures |-> lists.failures, logged |-> <<>>]

\* Variant of Reconcile: a response that is not a success is raised as an error
ReconcileAbortOnFailure(chunk, res, succ, fail) ==
    LET result_records == ResultRecords(res)
        lists == ReconcileLoop(Zip(chunk, result_records), 1, succ, fail)
    IN  [error |-> IF Len(lists.failures) > Len(fail)
                   THEN "PartialFailure" ELSE NoError,
         successes |-> lists.successes,
         failures |-> lists.failures,
         logged |-> IF Len(result_records) # Len(chunk)
                    THEN <<CountMismatch>> ELSE <<>>]

\* lines 255-270 for one chunk and the raw result of its dispatch: the two
\* lists after the loop and what logger.warning received
Reconcile(chunk, res, succ, fail) ==
    LET result_records == ResultRecords(res)
        lists == ReconcileLoop(Zip(chunk, result_records), 1, succ, fail)
    IN  [error |-> NoError, successes |-> lists.successes,
         failures |-> lists.failures,
         logged |-> IF Len(result_records) # Len(chunk)
                    THEN <<CountMismatch>> ELSE <<>>]

\* history: the positions 1..min(len, len) of the chunk whose response is a
\* success, or is not, each shifted by offset
PositionsWhere(chunk, res, wanted, offset) ==
    LET pairs == Zip(chunk, ResultRecords(res))
        RECURSIVE From(_)
        From(i) == IF i > Len(pairs) THEN <<>>
                   ELSE IF IsSuccess(pairs[i].response) = wanted
                   THEN <<offset + i>> \o From(i + 1)
                   ELSE From(i + 1)
    IN  From(1)

-----------------------------------------------------------------------------
(* Inputs *)

Items == 1..MaxItem
Lists == UNION {[1..n -> Items] : n \in 0..MaxLen}
ChunkSizes == (0 - MaxNeg)..MaxSize

FieldNames == {"Id", "Ext__c", "attributes"}
Scalars == {[scalar |-> "a"], [scalar |-> "b"]}
Records == UNION {[keys -> Scalars] : keys \in SUBSET FieldNames}
Batches == UNION {[1..n -> Records] : n \in 0..MaxBatch}
ObjectNames == {"Account", "Contact"}
Operations == {"insert", "update", "delete", "upsert", "merge"}
ExternalIdFields == {NoneVal, "", "Ext__c"}

\* no remote call made, nothing accumulated, nothing logged
NoRemote == [raised |-> FALSE, returned |-> FALSE]
NoOrigin == [successes |-> <<>>, failures |-> <<>>]
RunIdle ==
    /\ chunk_idx = 0
    /\ remote = NoRemote
    /\ result = NoResult
    /\ calls = <<>>
    /\ all_successes = <<>>
    /\ all_failures = <<>>
    /\ log = <<>>
    /\ returned = <<>>
    /\ origin = NoOrigin
    /\ all_ok = TRUE
    /\ exit_status = <<>>

-----------------------------------------------------------------------------
(* A call of chunk_list on any list and any chunk size *)

InitChunk ==
    /\ pc = "call"
    /\ data \in Lists
    /\ chunk_size \in ChunkSizes
    /\ chunks = NoResult
    /\ records = <<>>
    /\ object_name = NoneVal
    /\ operation = NoneVal
    /\ external_id_field = NoneVal
    /\ payload = NoResult
    /\ error = NoError
    /\ RunIdle

CallChunkList ==
    /\ pc = "call"
    /\ LET res == chunk_list(data, chunk_size)
       IN  /\ chunks' = res.value
           /\ error' = res.error
           /\ pc' = IF res.error = NoError THEN "returned" ELSE "raised"
    /\ UNCHANGED <<data, chunk_size, records, object_name, operation,
                   external_id_field, payload>>
    /\ UNCHANGED runVars

NextChunk == CallChunkList

SpecChunk == InitChunk /\ [][NextChunk]_vars

-----------------------------------------------------------------------------
(* A call of build_sobject_collection_payload on any batch *)

InitBuild ==
    /\ pc = "call"
    /\ data = <<>>
    /\ chunk_size = 1
    /\ chunks = NoResult
    /\ records \in Batches
    /\ object_name \in ObjectNames
    /\ operation \in Operations
    /\ external_id_field \in ExternalIdFields
    /\ payload = NoResult
    /\ error = NoError
    /\ RunIdle

CallBuild ==
    /\ pc = "call"
    /\ LET res == build_sobject_collection_payload(records, object_name,
                                                   operation, external_id_field)
       IN  /\ payload' = res.value
           /\ error' = res.error
           /\ pc' = IF res.error = NoError THEN "returned" ELSE "raised"
    /\ UNCHANGED <<data, chunk_size, chunks, records, object_name, operation,
                   external_id_field>>
    /\ UNCHANGED runVars

NextBuild == CallBuild

SpecBuild == InitBuild /\ [][NextBuild]_vars

-----------------------------------------------------------------------------
(* Properties of chunk_list, under SpecChunk *)

RECURSIVE Flatten(_)
Flatten(ss) == IF ss = <<>> THEN <<>> ELSE Head(ss) \o Flatten(Tail(ss))

RECURSIVE SumLen(_)
SumLen(ss) == IF ss = <<>> THEN 0 ELSE Len(Head(ss)) + SumLen(Tail(ss))

\* C1: for a chunk size > 0 the lengths of the returned chunks sum to the
\* length of the input, and the chunks concatenated in order are the input
\* (nothing lost, duplicated or reordered).
ChunkCompleteness ==
    (pc = "returned" /\ chunk_size > 0) =>
        /\ SumLen(chunks) = Len(data)
        /\ Flatten(chunks) = data

\* C1 witness: a returned split into several chunks, the last one partial,
\* of a list holding different items.
ChunkCompletenessWitness ==
    /\ pc = "returned"
    /\ chunk_size > 1
    /\ Len(chunks) >= 2
    /\ Len(data) % chunk_size # 0
    /\ data[1] # data[Len(data)]

\* C2: for a chunk size S > 0 every chunk but the last has exactly S items
\* and every chunk, the last included, has between 1 and S items.
BatchSizeBound ==
    (pc = "returned" /\ chunk_size > 0) =>
        \A k \in 1..Len(chunks) :
            /\ k < Len(chunks) => Len(chunks[k]) = chunk_size
            /\ Len(chunks[k]) >= 1
            /\ Len(chunks[k]) <= chunk_size

\* C2 witness: a returned split whose length is a multiple of the chunk
\* size, so that the last chunk is full and nothing follows it.
BatchSizeBoundWitness ==
    /\ pc = "returned"
    /\ chunk_size > 1
    /\ Len(data) = 2 * chunk_size
    /\ Len(chunks) = 2

\* C3: chunk_list raises InvalidArgument for every chunk size <= 0, whatever
\* the input list; it never returns for such a size.
ChunkRejectsNonPositiveSize ==
    (pc # "call" /\ chunk_size <= 0) =>
        (pc = "raised" /\ error = "InvalidArgument")

-----------------------------------------------------------------------------
(* Properties of build_sobject_collection_payload, under SpecBuild *)

Positions == 1..Len(records)

\* the metadata the builder is asked to tag a wire record with
Tagged(sobject) ==
    /\ "attributes" \in DOMAIN sobject
    /\ "type" \in DOMAIN sobject["attributes"]
    /\ "operation" \in DOMAIN sobject["attributes"]
    /\ sobject["attributes"]["type"] = object_name
    /\ sobject["attributes"]["operation"] = operation

\* C4: an update or delete of a batch in which some record, at any position,
\* lacks the Id key raises MissingIdentifier and returns no payload.
MissingIdRejected ==
    (/\ pc # "call"
     /\ operation \in {"update", "delete"}
     /\ \E i \in Positions : "Id" \notin DOMAIN records[i]) =>
        (pc = "raised" /\ error = "MissingIdentifier" /\ payload = NoResult)

\* C4 witness: an update raised for a batch whose first record has an Id
\* and whose last record has none.
MissingIdRejectedWitness ==
    /\ pc = "raised"
    /\ operation = "update"
    /\ Len(records) >= 2
    /\ "Id" \in DOMAIN records[1]
    /\ "Id" \notin DOMAIN records[Len(records)]

\* C5: an upsert without external_id_field (None or empty) raises
\* ConfigurationError for every batch, whatever the batch holds.
UpsertRequiresExternalIdField ==
    (/\ pc # "call"
     /\ operation = "upsert"
     /\ ~Truthy(external_id_field)) =>
        (pc = "raised" /\ error = "ConfigurationError")

\* C6: an upsert with external_id_field raises MissingIdentifier when some
\* record lacks that field; when every record has it, the metadata of each
\* wire record carries externalIdField equal to the field name.
UpsertExternalIdRecorded ==
    (/\ pc # "call"
     /\ operation = "upsert"
     /\ Truthy(external_id_field)) =>
        IF \E i \in Positions : external_id_field \notin DOMAIN records[i]
        THEN pc = "raised" /\ error = "MissingIdentifier"
        ELSE /\ pc = "returned"
             /\ \A i \in Positions :
                    /\ "externalIdField" \in DOMAIN payload.records[i]["attributes"]
                    /\ payload.records[i]["attributes"]["externalIdField"]
                           = external_id_field

\* C7: in a delete payload each wire record holds the Id of its source
\* record and the metadata, and no other field of the source record.
DeleteKeepsOnlyId ==
    (pc = "returned" /\ operation = "delete") =>
        \A i \in Positions :
            /\ DOMAIN payload.records[i] = {"attributes", "Id"}
            /\ payload.records[i]["Id"] = records[i]["Id"]
            /\ Tagged(payload.records[i])

\* C7 witness: a returned delete of a record that has fields besides Id.
DeleteKeepsOnlyIdWitness ==
    /\ pc = "returned"
    /\ operation = "delete"
    /\ \E i \in Positions : DOMAIN records[i] = FieldNames

\* C8: in an insert, update or upsert payload every field of every source
\* record is in its wire record under the same name with the same value, and
\* an insert is never rejected for a missing identifier.
FieldsPassThrough ==
    (pc # "call" /\ operation \in {"insert", "update", "upsert"}) =>
        /\ pc = "returned" =>
              \A i \in Positions : \A f \in DOMAIN records[i] :
                  /\ f \in DOMAIN payload.records[i]
                  /\ payload.records[i][f] = records[i][f]
        /\ operation = "insert" => pc = "returned"

\* C8 witness: a returned insert of a record without Id next to a record
\* with every field.
FieldsPassThroughWitness ==
    /\ pc = "returned"
    /\ operation = "insert"
    /\ \E i \in Positions : "Id" \notin DOMAIN records[i]
    /\ \E i \in Positions : DOMAIN records[i] = FieldNames

\* C9: every payload has allOrNone false and every wire record is tagged
\* with the object type and the operation given to the builder, whatever the
\* record holds, a field named like the metadata key included.
PayloadTagged ==
    pc = "returned" =>
        /\ payload.allOrNone = FALSE
        /\ \A i \in Positions : Tagged(payload.records[i])

\* C10: a built payload has as many wire records as the batch has records,
\* and the wire record at position i is made from the batch record at
\* position i.
PositionalCorrespondence ==
    pc = "returned" =>
        /\ Len(payload.records) = Len(records)
        /\ \A i \in Positions :
              LET w == payload.records[i]
                  r == records[i]
              IN  /\ \A f \in DOMAIN w \ {"attributes"} :
                         f \in DOMAIN r /\ w[f] = r[f]
                  /\ \A f \in DOMAIN r \ {"attributes"} :
                         (operation # "delete" \/ f = "Id") =>
                             (f \in DOMAIN w /\ w[f] = r[f])

\* C10 witness: a returned payload of a batch of two records that differ.
PositionalCorrespondenceWitness ==
    /\ pc = "returned"
    /\ Len(records) >= 2
    /\ "Id" \in DOMAIN records[1]
    /\ "Id" \in DOMAIN records[2]
    /\ records[1]["Id"] # records[2]["Id"]

-----------------------------------------------------------------------------
(* A call of send_sobject_collection_request on any payload *)

KnownOperations == {"insert", "update", "delete", "upsert"}

\* responses of the collection endpoint, as in the docstring of
\* send_sobject_collection_request
RespSuccess == [id |-> "001", success |-> TRUE, errors |-> <<>>]
RespFailure == [success |-> FALSE, errors |-> <<[message |-> <<"bad">>]>>]
PlainResponses == {RespSuccess, RespFailure}

ResponseLists(universe, lens) == UNION {[1..n -> universe] : n \in lens}

\* what sf.sf.restful may do with a request of n records: raise, or answer
\* each record
SendOutcomes(n) ==
    {RemoteRaises} \cup
    {RemoteReturns(ListResult(l)) : l \in ResponseLists(PlainResponses, {n})}

\* the wire record of r: the builder's, or where the builder refuses the
\* record, the record under the metadata alone (a payload made without the
\* builder)
WireRecord(r, obj, op, ext) ==
    LET built == SObject(r, obj, op, ext)
    IN  IF built.error = NoError
        THEN built.value
        ELSE DictUpdate(BaseSObject(obj, op), r)

WirePayload(recs, obj, op, ext) ==
    [allOrNone |-> FALSE,
     records |-> [i \in 1..Len(recs) |-> WireRecord(recs[i], obj, op, ext)]]

\* the payload in hand is the one the builder returns for the batch
BuiltByBuilder ==
    LET built == build_sobject_collection_payload(records, object_name,
                                                  operation, external_id_field)
    IN  built.error = NoError /\ built.value = payload

InitSend ==
    /\ pc = "send"
    /\ data = <<>>
    /\ chunk_size = 1
    /\ chunks = NoResult
    /\ records \in Batches
    /\ object_name \in ObjectNames
    /\ operation \in Operations
    /\ external_id_field \in ExternalIdFields
    /\ payload = WirePayload(records, object_name, operation, external_id_field)
    /\ error = NoError
    /\ RunIdle

CallSend ==
    /\ pc = "send"
    /\ \E outcome \in SendOutcomes(Len(payload.records)) :
          LET res == Dispatch(payload, outcome)
          IN  /\ result' = res.value
              /\ error' = res.error
              /\ calls' = calls \o res.sent
              /\ log' = log \o res.logged
              /\ remote' = IF Len(res.sent) = 0 THEN NoRemote ELSE outcome
              /\ pc' = IF res.error = NoError THEN "sent" ELSE "send_raised"
    /\ UNCHANGED <<data, chunk_size, chunks, records, object_name, operation,
                   external_id_field, payload, chunk_idx, all_successes,
                   all_failures, returned, origin, all_ok,
                   exit_status>>

NextSend == CallSend

SpecSend == InitSend /\ [][NextSend]_vars

-----------------------------------------------------------------------------
(* Properties of send_sobject_collection_request, under SpecSend *)

\* exactly one remote call was made, of this form
SentAs(endpoint, method, body) ==
    /\ Len(calls) = 1
    /\ calls[1].endpoint = endpoint
    /\ calls[1].method = method
    /\ calls[1].data = body

\* the batch's identifiers, in batch order, separated by commas
BatchIds == Join(<<",">>, [i \in 1..Len(records) |-> <<records[i]["Id"].scalar>>])

\* C11: the dispatcher routes by operation: insert goes out as POST
\* composite/sobjects, update as PATCH composite/sobjects, delete as DELETE
\* on the batch's identifiers in batch order without a body, upsert as PATCH
\* on composite/sobjects/<type>/<external id field>; any other operation is
\* rejected without a remote call.
DispatchRoutesByOperation ==
    pc \in {"sent", "send_raised"} =>
        /\ (BuiltByBuilder /\ Len(records) > 0) =>
              CASE operation = "insert" ->
                      SentAs(<<"composite/sobjects">>, "POST", <<payload>>)
                [] operation = "update" ->
                      SentAs(<<"composite/sobjects">>, "PATCH", <<payload>>)
                [] operation = "delete" ->
                      SentAs(<<"composite/sobjects?ids=">> \o BatchIds,
                             "DELETE", <<>>)
                [] operation = "upsert" ->
                      SentAs(<<"composite/sobjects/", object_name, "/",
                               external_id_field>>, "PATCH", <<payload>>)
        /\ operation \notin KnownOperations =>
              (calls = <<>> /\ pc = "send_raised")

\* C12: a failure of the remote call is logged and raised to the caller of
\* the dispatcher; no response list is returned in its place.
RemoteFailurePropagates ==
    remote.raised =>
        /\ pc = "send_raised"
        /\ error = "TransportError"
        /\ result = NoResult
        /\ Len(log) = 1
        /\ log[1].level = "error"

\* C12 witness: a remote call was made and raised.
RemoteFailurePropagatesWitness ==
    /\ remote.raised
    /\ Len(calls) = 1
    /\ pc = "send_raised"

-----------------------------------------------------------------------------
(* The reconciliation of one chunk with any raw result *)

\* two records that differ
ReconcileRecords == {[Id |-> [scalar |-> "a"]], [Id |-> [scalar |-> "b"]]}
ReconcileBatches == UNION {[1..n -> ReconcileRecords] : n \in 0..MaxBatch}

\* responses of every shape the loop reads: with and without the success
\* flag, the error list, the message of an error
RespSuccess2 == [id |-> "002", success |-> TRUE, errors |-> <<>>]
RespFailure2 ==
    [success |-> FALSE, errors |-> <<[message |-> <<"bad">>], [message |-> <<"dup">>]>>]
RespFailureNoErrors == [success |-> FALSE, errors |-> <<>>]
RespNoErrorList == [success |-> FALSE]
RespNoFlag == [errors |-> <<[statusCode |-> "X"], [message |-> <<"bad">>]>>]
AllResponses ==
    {RespSuccess, RespSuccess2, RespFailure, RespFailure2, RespFailureNoErrors,
     RespNoErrorList, RespNoFlag}

\* raw results for a chunk of n records: a list of any responses, one fewer
\* to one more than n; a dict holding a list under "results"; a dict without
\* that key
RawResults(n) ==
    {ListResult(l) : l \in ResponseLists(AllResponses, 0..(n + 1))}
    \cup {DictResult([results |-> l]) : l \in ResponseLists(PlainResponses, {n})}
    \cup {DictResult([done |-> TRUE])}

InitReconcile ==
    /\ pc = "reconcile"
    /\ data = <<>>
    /\ chunk_size = 1
    /\ chunks = NoResult
    /\ records \in ReconcileBatches
    /\ object_name = "Account"
    /\ operation = "insert"
    /\ external_id_field = NoneVal
    /\ payload = NoResult
    /\ error = NoError
    /\ chunk_idx = 1
    /\ remote = NoRemote
    /\ result \in RawResults(Len(records))
    /\ calls = <<>>
    /\ all_successes = <<>>
    /\ all_failures = <<>>
    /\ log = <<>>
    /\ returned = <<>>
    /\ origin = NoOrigin
    /\ all_ok = TRUE
    /\ exit_status = <<>>

CallReconcile ==
    /\ pc = "reconcile"
    /\ LET rec == Reconcile(records, result, all_successes, all_failures)
       IN  /\ all_successes' = rec.successes
           /\ all_failures' = rec.failures
           /\ log' = log \o rec.logged
           /\ error' = rec.error
           /\ pc' = IF rec.error = NoError THEN "reconciled" ELSE "reconcile_raised"
    /\ origin' = [successes |-> origin.successes
                                  \o PositionsWhere(records, result, TRUE, 0),
                  failures |-> origin.failures
                                  \o PositionsWhere(records, result, FALSE, 0)]
    /\ UNCHANGED <<data, chunk_size, chunks, records, object_name, operation,
                   external_id_field, payload, chunk_idx, remote, result, calls,
                   returned, all_ok,
                   exit_status>>

NextReconcile == CallReconcile

SpecReconcile == InitReconcile /\ [][NextReconcile]_vars

-----------------------------------------------------------------------------
(* Properties of the reconciliation, under SpecReconcile *)

\* the responses the chunk is reconciled with
Responses == ResultRecords(result)

Increasing(seq) == \A j \in 1..(Len(seq) - 1) : seq[j] < seq[j + 1]

Range(seq) == {seq[j] : j \in 1..Len(seq)}

\* C13: batch[i] is paired with responses[i] by position: the entry made for
\* response i carries the unmodified record batch[i], and the entries are in
\* increasing position order within the successes and within the failures.
ReconciledByPosition ==
    pc = "reconciled" =>
        /\ Len(all_successes) = Len(origin.successes)
        /\ Len(all_failures) = Len(origin.failures)
        /\ \A j \in 1..Len(all_successes) :
              all_successes[j].record = records[origin.successes[j]]
        /\ \A j \in 1..Len(all_failures) :
              all_failures[j].record = records[origin.failures[j]]
        /\ Increasing(origin.successes)
        /\ Increasing(origin.failures)

\* C13 witness: two records that differ, the first rejected and the second
\* accepted.
ReconciledByPositionWitness ==
    /\ pc = "reconciled"
    /\ Len(records) = 2
    /\ records[1] # records[2]
    /\ origin.failures = <<1>>
    /\ origin.successes = <<2>>

\* the success flag of a response is true
FlagTrue(response) == "success" \in DOMAIN response /\ response["success"] = TRUE

\* the messages attached to a response, separated by "; "
RECURSIVE Semicolons(_)
Semicolons(errors) ==
    IF errors = <<>> THEN <<>>
    ELSE IF Len(errors) = 1 THEN Head(errors).message
    ELSE Head(errors).message \o <<"; ">> \o Semicolons(Tail(errors))

\* C14: a response is a Success exactly when its success flag is true, with
\* the identifier of that response; otherwise it is a Failure whose message
\* is the messages of the response's errors in order, separated by
\* semicolons, or the empty string when it has no errors.
ClassifiedBySuccessFlag ==
    pc = "reconciled" =>
        /\ Len(all_successes) =
              Cardinality({i \in 1..Min(Len(records), Len(Responses)) :
                              FlagTrue(Responses[i])})
        /\ Len(all_failures) =
              Cardinality({i \in 1..Min(Len(records), Len(Responses)) :
                              ~FlagTrue(Responses[i])})
        /\ \A j \in 1..Len(origin.successes) :
              LET response == Responses[origin.successes[j]]
              IN  /\ FlagTrue(response)
                  /\ all_successes[j]["id"] = response["id"]
        /\ \A j \in 1..Len(origin.failures) :
              LET response == Responses[origin.failures[j]]
              IN  /\ ~FlagTrue(response)
                  /\ ("errors" \in DOMAIN response
                        /\ \A k \in 1..Len(response["errors"]) :
                              "message" \in DOMAIN response["errors"][k])
                        => all_failures[j]["error"] = Semicolons(response["errors"])

\* C14 witness: a success with its identifier next to a failure with two
\* messages.
ClassifiedBySuccessFlagWitness ==
    /\ pc = "reconciled"
    /\ \E j \in 1..Len(all_successes) : all_successes[j]["id"] = "002"
    /\ \E j \in 1..Len(all_failures) :
          all_failures[j]["error"] = <<"bad", "; ", "dup">>

\* C15: when the number of responses differs from the chunk length, a
\* warning is logged, nothing is raised, and there are exactly
\* min(len(batch), len(responses)) entries, none of them for a record beyond
\* the responses.
CountMismatchTolerated ==
    (pc \in {"reconciled", "reconcile_raised"} /\ Len(Responses) # Len(records)) =>
        /\ pc = "reconciled"
        /\ error = NoError
        /\ log = <<CountMismatch>>
        /\ Len(all_successes) + Len(all_failures)
               = Min(Len(records), Len(Responses))
        /\ \A i \in Range(origin.successes) \cup Range(origin.failures) :
               i <= Len(Responses) /\ i <= Len(records)

\* C15 witness: two records and a single response.
CountMismatchToleratedWitness ==
    /\ pc = "reconciled"
    /\ Len(records) = 2
    /\ Len(Responses) = 1
    /\ Len(all_successes) + Len(all_failures) = 1

-----------------------------------------------------------------------------
(* A run of perform_operation_in_batches *)

MaxRun == 3          \* longest record list given to a run
MaxRunSize == 2      \* largest batch size of a run

\* records with and without an Id and an external id, and one with a field
\* named like the metadata key
RunRecords ==
    {[Id |-> [scalar |-> "a"], Ext__c |-> [scalar |-> "a"]],
     [Id |-> [scalar |-> "b"], Ext__c |-> [scalar |-> "b"]],
     [k \in {} |-> [scalar |-> "a"]],
     [Id |-> [scalar |-> "a"], Ext__c |-> [scalar |-> "a"],
      attributes |-> [scalar |-> "a"]]}
RunLists == UNION {[1..n -> RunRecords] : n \in 0..MaxRun}
RunBatchSizes == (0 - 1)..MaxRunSize
RunExternalIdFields == {NoneVal, "Ext__c"}

AllSuccess(n) == [i \in 1..n |-> RespSuccess]

\* what sf.sf.restful may do with a request of n records: raise; answer each
\* record; answer one record too few or too many; return a dict with or
\* without the list under "results"
RunOutcomes(n) ==
    {RemoteRaises}
    \cup {RemoteReturns(ListResult(l)) : l \in ResponseLists(PlainResponses, {n})}
    \cup {RemoteReturns(ListResult(AllSuccess(m))) :
              m \in {k \in {n - 1, n + 1} : k >= 0}}
    \cup {RemoteReturns(DictResult([results |-> AllSuccess(n)])),
          RemoteReturns(DictResult([done |-> TRUE]))}

\* number of records of the chunks before chunk k
Offset(k) == SumLen(SubSeq(chunks, 1, k - 1))

\* Variant of AfterSend: the loop goes on to the next chunk when the dispatch raises
AfterSendSkip(err) == IF err = NoError THEN "reconcile" ELSE "next"

\* where the run goes after send_sobject_collection_request (line 254): an
\* exception leaves the loop and the function
AfterSend(err) == IF err = NoError THEN "reconcile" ELSE "aborted"

InitRun ==
    /\ pc = "start"
    /\ data \in RunLists
    /\ chunk_size \in RunBatchSizes
    /\ chunks = NoResult
    /\ records = <<>>
    /\ object_name = "Account"
    /\ operation \in Operations
    /\ external_id_field \in RunExternalIdFields
    /\ payload = NoResult
    /\ error = NoError
    /\ RunIdle

\* line 251: chunk_list(records, batch_size)
RunChunk ==
    /\ pc = "start"
    /\ LET res == chunk_list(data, chunk_size)
       IN  /\ chunks' = res.value
           /\ error' = res.error
           /\ pc' = IF res.error = NoError THEN "next" ELSE "aborted"
    /\ UNCHANGED <<data, chunk_size, records, object_name, operation,
                   external_id_field, payload>>
    /\ UNCHANGED runVars

\* line 251: the loop takes the next chunk
RunNext ==
    /\ pc = "next"
    /\ chunk_idx < Len(chunks)
    /\ chunk_idx' = chunk_idx + 1
    /\ records' = chunks[chunk_idx + 1]
    /\ pc' = "build"
    /\ UNCHANGED <<data, chunk_size, chunks, object_name, operation,
                   external_id_field, payload, error, remote, result, calls,
                   all_successes, all_failures, log, returned, origin, all_ok,
                   exit_status>>

\* line 253: build_sobject_collection_payload(chunk, ...)
RunBuild ==
    /\ pc = "build"
    /\ LET res == build_sobject_collection_payload(records, object_name,
                                                   operation, external_id_field)
       IN  /\ payload' = res.value
           /\ error' = res.error
           /\ pc' = IF res.error = NoError THEN "send" ELSE "aborted"
    /\ UNCHANGED <<data, chunk_size, chunks, records, object_name, operation,
                   external_id_field>>
    /\ UNCHANGED runVars

\* line 254: send_sobject_collection_request(sf, payload, logger)
RunSend ==
    /\ pc = "send"
    /\ \E outcome \in RunOutcomes(Len(payload.records)) :
          LET res == Dispatch(payload, outcome)
          IN  /\ result' = res.value
              /\ error' = res.error
              /\ calls' = calls \o res.sent
              /\ log' = log \o res.logged
              /\ remote' = IF Len(res.sent) = 0 THEN remote ELSE outcome
              /\ all_ok' = (all_ok /\
                              (Len(res.sent) = 0 \/
                               outcome = RemoteReturns(ListResult(
                                             AllSuccess(Len(payload.records))))))
              /\ pc' = AfterSend(res.error)
    /\ UNCHANGED <<data, chunk_size, chunks, records, object_name, operation,
                   external_id_field, payload, chunk_idx, all_successes,
                   all_failures, returned, origin, exit_status>>

\* lines 255-270: the responses of the chunk are reconciled
RunReconcile ==
    /\ pc = "reconcile"
    /\ LET rec == Reconcile(records, result, all_successes, all_failures)
       IN  /\ all_successes' = rec.successes
           /\ all_failures' = rec.failures
           /\ log' = log \o rec.logged
           /\ error' = rec.error
           /\ pc' = IF rec.error = NoError THEN "next" ELSE "aborted"
    /\ origin' = [successes |-> origin.successes
                      \o PositionsWhere(records, result, TRUE, Offset(chunk_idx)),
                  failures |-> origin.failures
                      \o PositionsWhere(records, result, FALSE, Offset(chunk_idx))]
    /\ UNCHANGED <<data, chunk_size, chunks, records, object_name, operation,
                   external_id_field, payload, chunk_idx, remote, result, calls,
                   returned, all_ok,
                   exit_status>>

\* line 271: return all_successes, all_failures
RunReturn ==
    /\ pc = "next"
    /\ chunk_idx >= Len(chunks)
    /\ returned' = <<[successes |-> all_successes, failures |-> all_failures]>>
    /\ pc' = "done"
    /\ UNCHANGED <<data, chunk_size, chunks, records, object_name, operation,
                   external_id_field, payload, error, chunk_idx, remote, result,
                   calls, all_successes, all_failures, log, origin, all_ok,
                   exit_status>>

NextRun ==
    \/ RunChunk
    \/ RunNext
    \/ RunBuild
    \/ RunSend
    \/ RunReconcile
    \/ RunReturn

SpecRun == InitRun /\ [][NextRun]_vars

-----------------------------------------------------------------------------
(* Claims about perform_operation_in_batches *)

\* the dispatcher has logged an error, which it does exactly when it raises
DispatchFailed == \E j \in 1..Len(log) : log[j].level = "error"

\* C16: once the dispatch of batch k has raised, the run is aborted with that
\* error: the loop is still at batch k, no request of a later batch has been
\* made, and nothing is returned to the caller, whatever was accumulated from
\* the batches before k.
FailFast ==
    DispatchFailed =>
        /\ pc = "aborted"
        /\ error # NoError
        /\ returned = <<>>
        /\ chunk_idx \in 1..Len(chunks)
        /\ records = chunks[chunk_idx]
        /\ payload.records = build_sobject_collection_payload(
               chunks[chunk_idx], object_name, operation,
               external_id_field).value.records
        /\ Len(calls) <= chunk_idx
        /\ remote.raised => (error = "TransportError" /\ Len(calls) = chunk_idx)

\* C16 witness: the remote call of batch 2 of 3 raised after batch 1 had been
\* reconciled into a success.
FailFastWitness ==
    /\ DispatchFailed
    /\ remote.raised
    /\ Len(chunks) = 3
    /\ chunk_idx = 2
    /\ Len(all_successes) = 1
    /\ returned = <<>>

\* the number of responses paired with a record of the current chunk that
\* are not successes
Rejected ==
    Cardinality({j \in 1..Min(Len(records), Len(Responses)) :
                     ~FlagTrue(Responses[j])})

\* C17: reconciling a batch never aborts the run, whatever the number of
\* responses that are not successes: each of them adds one entry to the
\* failure list, the loop goes on, and from there the next batch is built
\* or, after the last batch, the two lists are returned.
PerRecordFailureRecovered ==
    [][/\ pc = "reconcile" =>
              /\ pc' = "next"
              /\ error' = NoError
              /\ chunk_idx' = chunk_idx
              /\ Len(all_failures') = Len(all_failures) + Rejected
       /\ (pc = "next" /\ Len(all_failures) > 0) =>
              \/ /\ chunk_idx < Len(chunks)
                 /\ pc' = "build"
                 /\ chunk_idx' = chunk_idx + 1
                 /\ records' = chunks[chunk_idx + 1]
                 /\ all_failures' = all_failures
              \/ /\ chunk_idx = Len(chunks)
                 /\ pc' = "done"
                 /\ returned' = <<[successes |-> all_successes,
                                   failures |-> all_failures]>>]_vars

\* C17 witness: a run of three batches has returned with every record
\* rejected.
PerRecordFailureRecoveredWitness ==
    /\ pc = "done"
    /\ Len(chunks) = 3
    /\ Len(calls) = 3
    /\ Len(returned[1].failures) = 3
    /\ returned[1].successes = <<>>

\* ceil(a / b) for b > 0
CeilDiv(a, b) == (a + b - 1) \div b

\* C18: a run that inserts L records with a batch size S > 0, every remote
\* call of which answered each record sent with a success, ends by returning
\* L successes and no failures after ceil(L / S) remote calls.
EndToEndInsert ==
    (pc \in {"done", "aborted"} /\ operation = "insert" /\ chunk_size > 0
        /\ all_ok) =>
        /\ pc = "done"
        /\ Len(returned[1].successes) = Len(data)
        /\ returned[1].failures = <<>>
        /\ Len(calls) = CeilDiv(Len(data), chunk_size)

IsPrefix(a, b) == Len(a) <= Len(b) /\ SubSeq(b, 1, Len(a)) = a

\* entries are the entries made for the input records at the positions pos,
\* which go up
InInputOrder(entries, pos) ==
    /\ Len(entries) = Len(pos)
    /\ Increasing(pos)
    /\ \A j \in 1..Len(entries) :
          /\ pos[j] \in 1..Len(data)
          /\ entries[j].record = data[pos[j]]

\* C19: the success and failure lists are empty until the first batch has
\* been answered, change only in the step that reconciles a batch's
\* responses and then only by entries added at the end, and the lists
\* returned are the accumulated ones, each in input order: earlier batches
\* first, and record position order within a batch.
OrderedAccumulation ==
    /\ [](Len(calls) = 0 => (all_successes = <<>> /\ all_failures = <<>>))
    /\ [][/\ IsPrefix(all_successes, all_successes')
          /\ IsPrefix(all_failures, all_failures')
          /\ (all_successes' # all_successes \/ all_failures' # all_failures)
                => (pc = "reconcile" /\ remote.returned)]_vars
    /\ [](pc = "done" =>
            /\ returned = <<[successes |-> all_successes,
                             failures |-> all_failures]>>
            /\ InInputOrder(returned[1].successes, origin.successes)
            /\ InInputOrder(returned[1].failures, origin.failures))

\* C19 witness: of three records in two batches the first and the third,
\* which differ, are returned as successes and the second as a failure.
OrderedAccumulationWitness ==
    /\ pc = "done"
    /\ Len(data) = 3
    /\ Len(chunks) = 2
    /\ data[1] # data[3]
    /\ origin.successes = <<1, 3>>
    /\ origin.failures = <<2>>
    /\ Len(returned[1].successes) = 2

\* the request that goes out for chunk k of the run
RequestOf(k) ==
    Route(build_sobject_collection_payload(chunks[k], object_name, operation,
                                           external_id_field).value).value

\* C20: batches go out one at a time in batch order and never twice: the
\* k-th remote call is the request of batch k, a call is made only for the
\* batch the loop is at and only when none has been made for it, the loop
\* moves to batch k+1 only from the end of the reconcile step of batch k,
\* and so the calls never outnumber the batches.
SequentialDispatch ==
    /\ [](chunk_idx >= 1 =>
            /\ chunk_idx <= Len(chunks)
            /\ Len(calls) <= Len(chunks)
            /\ pc \in {"build", "send"} => Len(calls) = chunk_idx - 1
            /\ pc \in {"reconcile", "next", "done"} => Len(calls) = chunk_idx
            /\ pc = "aborted" => Len(calls) \in {chunk_idx - 1, chunk_idx}
            /\ \A k \in 1..Len(calls) : calls[k] = RequestOf(k))
    /\ [][/\ calls' # calls =>
                /\ pc = "send"
                /\ Len(calls) = chunk_idx - 1
                /\ Len(calls') = chunk_idx
          /\ chunk_idx' # chunk_idx =>
                /\ pc = "next"
                /\ chunk_idx' = chunk_idx + 1
                /\ Len(calls) = chunk_idx
          /\ (pc' = "next" /\ pc # "next") =>
                pc \in {"start", "reconcile"}]_vars

\* C20 witness: the remote call of the third of three batches has raised
\* after the first two were answered; three calls were made.
SequentialDispatchWitness ==
    /\ pc = "aborted"
    /\ remote.raised
    /\ Len(chunks) = 3
    /\ chunk_idx = 3
    /\ Len(calls) = 3
    /\ calls[1] # calls[2]

\* the errors of the preconditions checked while a payload is built
PreconditionErrors == {"MissingIdentifier", "ConfigurationError"}

\* record r violates a precondition of the operation of the run
ViolatesPrecondition(r) ==
    \/ operation \in {"update", "delete"} /\ "Id" \notin DOMAIN r
    \/ operation = "upsert" /\ external_id_field \in {NoneVal, ""}
    \/ operation = "upsert" /\ external_id_field \notin DOMAIN r

\* C21: a batch holding a record without Id (update, delete), without the
\* external id field, or an upsert batch built without external_id_field,
\* is never sent: the run aborts with the precondition error while building
\* it, only the batches before it have been sent, and nothing is returned.
PreconditionBeforeDispatch ==
    (chunk_idx >= 1 /\ \E i \in 1..Len(records) : ViolatesPrecondition(records[i])) =>
        /\ pc \in {"build", "aborted"}
        /\ Len(calls) = chunk_idx - 1
        /\ \A k \in 1..Len(calls) : calls[k] = RequestOf(k)
        /\ returned = <<>>
        /\ pc = "aborted" => (error \in PreconditionErrors /\ ~DispatchFailed)

\* C21 witness: the second of three update batches holds a record without Id;
\* the run has aborted after the one call of the first batch.
PreconditionBeforeDispatchWitness ==
    /\ pc = "aborted"
    /\ error = "MissingIdentifier"
    /\ operation = "update"
    /\ Len(chunks) = 3
    /\ chunk_idx = 2
    /\ "Id" \notin DOMAIN records[1]
    /\ Len(calls) = 1
    /\ ~DispatchFailed

\* C22: a run with a chunk size that is not positive, or with an operation
\* other than insert, update, delete and upsert, makes no remote call and
\* ends by raising InvalidArgument, whatever the record list.
InvalidArgumentRejected ==
    (chunk_size <= 0 \/ operation \notin KnownOperations) =>
        /\ calls = <<>>
        /\ pc \in {"done", "aborted"} =>
              (pc = "aborted" /\ error = "InvalidArgument" /\ returned = <<>>)

-----------------------------------------------------------------------------
(* main: the upload command *)

MaxCsv == 2          \* most rows of an enumerated CSV file

\* "Number of records per API call (max 200)": the per-call maximum of the
\* collection endpoint, and the default of --batch_size
MaxPerCall == 200
DefaultBatchSize == 200

\* rows of a CSV file with the columns of header h, as csv.DictReader
\* returns them
CsvHeaders == {{"Id"}, {"Id", "Ext__c"}, {"Ext__c", "attributes"}}
CsvRows(h) == [h -> Scalars]

CsvFiles == UNION {[1..n -> CsvRows(h)] : h \in CsvHeaders, n \in 0..MaxCsv}

\* the values given to --batch_size: any integer is accepted (type=int)
MainBatchSizes == RunBatchSizes \cup {DefaultBatchSize, MaxPerCall + 1}

\* the answers typed for a field: "n" skips it, Enter keeps its name
Answers == {"n", ""}

\* prompt_field_mapping: no mapping without records; else one entry for
\* each field of the first record that is not skipped
prompt_field_mapping(recs, answers) ==
    IF Len(recs) = 0
    THEN [f \in {} |-> ""]
    ELSE [f \in {g \in DOMAIN recs[1] : answers[g] # "n"} |->
             IF answers[f] = "" THEN f ELSE answers[f]]

\* the fields answers are asked for
PromptedFields(recs) == IF Len(recs) = 0 THEN {} ELSE DOMAIN recs[1]

\* the inner loop of apply_field_mapping: the mapped fields the record has,
\* under their new names
MapRecord(record, field_mapping) ==
    LET present == {o \in DOMAIN field_mapping : o \in DOMAIN record}
    IN  [m \in {field_mapping[o] : o \in present} |->
            record[CHOOSE o \in present : field_mapping[o] = m]]

apply_field_mapping(recs, field_mapping) ==
    [i \in 1..Len(recs) |-> MapRecord(recs[i], field_mapping)]

InitMain ==
    /\ pc = "parse"
    /\ data = <<>>
    /\ chunk_size \in MainBatchSizes
    /\ chunks = NoResult
    /\ records = <<>>
    /\ object_name = "Account"
    /\ operation \in Operations
    /\ external_id_field \in RunExternalIdFields
    /\ payload = NoResult
    /\ error = NoError
    /\ RunIdle

\* line 341: parse_args; argparse exits with status 2 for an --operation
\* outside its choices (line 39)
MainParse ==
    /\ pc = "parse"
    /\ IF operation \in KnownOperations
       THEN pc' = "connect" /\ exit_status' = exit_status
       ELSE pc' = "exited" /\ exit_status' = <<2>>
    /\ UNCHANGED <<data, chunk_size, chunks, records, object_name, operation,
                   external_id_field, payload, error, chunk_idx, remote, result,
                   calls, all_successes, all_failures, log, returned, origin,
                   all_ok>>

\* lines 345-346: SalesforceClient(args.config) connects or raises
MainConnect ==
    /\ pc = "connect"
    /\ \E connected \in BOOLEAN :
          IF connected
          THEN pc' = "read" /\ error' = error
          ELSE pc' = "failed" /\ error' = "ConnectionError"
    /\ UNCHANGED <<data, chunk_size, chunks, records, object_name, operation,
                   external_id_field, payload>>
    /\ UNCHANGED runVars

\* line 347: read_csv returns the rows of the file or raises
MainRead ==
    /\ pc = "read"
    /\ \/ \E rows \in CsvFiles :
             /\ data' = rows
             /\ pc' = "map"
             /\ error' = error
       \/ /\ data' = data
          /\ pc' = "failed"
          /\ error' = "ReadError"
    /\ UNCHANGED <<chunk_size, chunks, records, object_name, operation,
                   external_id_field, payload>>
    /\ UNCHANGED runVars

\* lines 349-350: the mapping is asked for and applied; data holds the rows
\* read before the step and the mapped records, the records of the run,
\* after it
MainMap ==
    /\ pc = "map"
    /\ \E answers \in [PromptedFields(data) -> Answers] :
          data' = apply_field_mapping(data, prompt_field_mapping(data, answers))
    /\ log' = IF Len(data) = 0
              THEN log \o <<[level |-> "warning", kind |-> "NoRecords"]>>
              ELSE log
    /\ pc' = "start"
    /\ UNCHANGED <<chunk_size, chunks, records, object_name, operation,
                   external_id_field, payload, error, chunk_idx, remote, result,
                   calls, all_successes, all_failures, returned, origin, all_ok,
                   exit_status>>

\* lines 360-363 and the end of main: the result files are written, or
\* writing them raises
MainSave ==
    /\ pc = "done"
    /\ \E written \in BOOLEAN :
          IF written
          THEN pc' = "exited" /\ exit_status' = <<0>> /\ error' = error
          ELSE pc' = "failed" /\ exit_status' = exit_status /\ error' = "WriteError"
    /\ UNCHANGED <<data, chunk_size, chunks, records, object_name, operation,
                   external_id_field, payload, chunk_idx, remote, result,
                   calls, all_successes, all_failures, log, returned, origin,
                   all_ok>>

\* Variant of MainExcept: the error is logged and main returns
MainExceptLogOnly ==
    /\ pc \in {"failed", "aborted"}
    /\ log' = log \o <<[level |-> "error", kind |-> "UploadError"]>>
    /\ exit_status' = <<0>>
    /\ pc' = "exited"
    /\ UNCHANGED <<data, chunk_size, chunks, records, object_name, operation,
                   external_id_field, payload, error, chunk_idx, remote, result,
                   calls, all_successes, all_failures, returned, origin, all_ok>>

\* lines 364-366: any exception of the try block is logged and the process
\* exits with status 1
MainExcept ==
    /\ pc \in {"failed", "aborted"}
    /\ log' = log \o <<[level |-> "error", kind |-> "UploadError"]>>
    /\ exit_status' = <<1>>
    /\ pc' = "exited"
    /\ UNCHANGED <<data, chunk_size, chunks, records, object_name, operation,
                   external_id_field, payload, error, chunk_idx, remote, result,
                   calls, all_successes, all_failures, returned, origin, all_ok>>

NextMain ==
    \/ MainParse
    \/ MainConnect
    \/ MainRead
    \/ MainMap
    \/ NextRun
    \/ MainSave
    \/ MainExcept

SpecMain == InitMain /\ [][NextMain]_vars

-----------------------------------------------------------------------------
(* Claims about the upload command *)

\* C23 as stated: the command exits with a non-zero status when the run did
\* not complete, and with status 0 whenever perform_operation_in_batches
\* has returned.
ExitZeroWhenCompleted ==
    pc = "exited" =>
        /\ returned = <<>> => exit_status # <<0>>
        /\ returned # <<>> => exit_status = <<0>>

\* C23 amended: the command exits with a non-zero status on every error
\* (rejected arguments, connection, reading the file, building a payload,
\* dispatch, writing the result files), and with status 0 exactly when
\* perform_operation_in_batches has returned and the result files were
\* written, whatever the number of failure entries.
ExitZeroWhenCompletedAndSaved ==
    pc = "exited" =>
        /\ exit_status \in {<<0>>, <<1>>, <<2>>}
        /\ exit_status = <<0>> <=> (returned # <<>> /\ error = NoError)
        /\ exit_status = <<1>> <=> error # NoError
        /\ exit_status = <<2>> <=> operation \notin KnownOperations
        /\ returned = <<>> => exit_status # <<0>>

\* C23 witness: the command has exited with status 0 after a run in which
\* every record was rejected.
ExitZeroWhenCompletedAndSavedWitness ==
    /\ pc = "exited"
    /\ exit_status = <<0>>
    /\ Len(data) = 2
    /\ Len(returned[1].failures) = 2
    /\ returned[1].successes = <<>>

\* the number of records a remote call carries: those of its body, or for a
\* delete, whose body is empty, the identifiers of its endpoint
Carried(call) ==
    IF call.data # NoBody
    THEN Len(call.data[1].records)
    ELSE Cardinality({j \in 1..Len(call.endpoint) : call.endpoint[j] # ","}) - 1

\* C24: once the arguments are parsed the batch size in use is at most the
\* 200 records the endpoint takes in a call, and every remote call carries
\* at most the batch size, so at most 200 records.
BatchSizeWithinEndpointMaximum ==
    (pc # "parse" /\ exit_status # <<2>>) =>
        /\ chunk_size <= MaxPerCall
        /\ \A k \in 1..Len(calls) :
              /\ Carried(calls[k]) <= chunk_size
              /\ Carried(calls[k]) <= MaxPerCall

-----------------------------------------------------------------------------
(* Further properties of chunk_list, under SpecChunk *)

\* C25: for a chunk size > 0, chunk_list of the empty list returns the
\* empty list of chunks, not a list holding one empty chunk.
EmptyInputNoChunks ==
    (pc = "returned" /\ chunk_size > 0 /\ data = <<>>) =>
        /\ chunks = <<>>
        /\ chunks # <<<<>>>>

\* C25 witness: chunk_list has returned for the empty list and a chunk size
\* of 2.
EmptyInputNoChunksWitness ==
    /\ pc = "returned"
    /\ data = <<>>
    /\ chunk_size = 2
    /\ Len(chunks) = 0

-----------------------------------------------------------------------------
(* build_sobject_collection_payload on a heap of dict objects *)

\* The records of the batch are the objects 1..n of the heap; the wire
\* record made for record i is the new object n + i.  Each statement of the
\* loop body writes to the object it names.

\* sobject = {...}: a new object s
Allocate(heap, s, value) ==
    [k \in DOMAIN heap \cup {s} |-> IF k = s THEN value ELSE heap[k]]

\* Variant of HeapUpdate: the update goes the other way, source.update(target)
HeapUpdateReversed(heap, target, source) ==
    [heap EXCEPT ![source] = DictUpdate(heap[source], heap[target])]

\* target.update(source)
HeapUpdate(heap, target, source) ==
    [heap EXCEPT ![target] = DictUpdate(heap[target], heap[source])]

\* target[key] = value
HeapSet(heap, target, key, value) ==
    [heap EXCEPT ![target] = DictSet(heap[target], key, value)]

\* target["attributes"]["externalIdField"] = ext
HeapSetExternalIdField(heap, target, ext) ==
    [heap EXCEPT ![target] = WithExternalIdField(heap[target], ext)]

\* lines 192-222 for the record r, with s the new object: the error raised
\* and the heap left
SObjectOnHeap(heap, r, s, obj, op, ext) ==
    LET h == Allocate(heap, s, BaseSObject(obj, op))
        Done(after) == [error |-> NoError, heap |-> after]
        Failed(kind) == [error |-> kind, heap |-> h]
    IN  CASE op = "insert" -> Done(HeapUpdate(h, s, r))
          [] op = "update" ->
                IF "Id" \notin DOMAIN h[r]
                THEN Failed("MissingIdentifier")
                ELSE Done(HeapUpdate(h, s, r))
          [] op = "delete" ->
                IF "Id" \notin DOMAIN h[r]
                THEN Failed("MissingIdentifier")
                ELSE Done(HeapSet(h, s, "Id", h[r]["Id"]))
          [] op = "upsert" ->
                IF ~Truthy(ext)
                THEN Failed("ConfigurationError")
                ELSE IF ext \notin DOMAIN h[r]
                THEN Failed("MissingIdentifier")
                ELSE Done(HeapUpdate(HeapSetExternalIdField(h, s, ext), s, r))
          [] OTHER -> Failed("InvalidArgument")

\* the loop of lines 190-224 from record i of n, acc the objects appended to
\* payload["records"] so far
RECURSIVE BuildOnHeap(_, _, _, _, _, _, _)
BuildOnHeap(heap, n, obj, op, ext, i, acc) ==
    IF i > n
    THEN [error |-> NoError, heap |-> heap,
          payload |-> [allOrNone |-> FALSE,
                       records |-> [k \in 1..Len(acc) |-> heap[acc[k]]]]]
    ELSE LET step == SObjectOnHeap(heap, i, n + i, obj, op, ext)
         IN  IF step.error # NoError
             THEN [error |-> step.error, heap |-> step.heap, payload |-> NoResult]
             ELSE BuildOnHeap(step.heap, n, obj, op, ext, i + 1, Append(acc, n + i))

\* the call, and the batch as the caller finds it afterwards
CallBuildOnHeap ==
    /\ pc = "call"
    /\ LET n == Len(records)
           res == BuildOnHeap([k \in 1..n |-> records[k]], n, object_name,
                              operation, external_id_field, 1, <<>>)
       IN  /\ payload' = res.payload
           /\ records' = [k \in 1..n |-> res.heap[k]]
           /\ error' = res.error
           /\ pc' = IF res.error = NoError THEN "returned" ELSE "raised"
    /\ UNCHANGED <<data, chunk_size, chunks, object_name, operation,
                   external_id_field>>
    /\ UNCHANGED runVars

NextBuildOnHeap == CallBuildOnHeap

SpecBuildOnHeap == InitBuild /\ [][NextBuildOnHeap]_vars

\* C26: whether build_sobject_collection_payload returns or raises, the
\* batch it was given is afterwards what it was before: the same records in
\* the same order, each with the same fields and values; what it returns or
\* raises is what the builder computes from that batch.
BuildLeavesBatchUnchanged ==
    [][pc = "call" =>
          /\ pc' \in {"returned", "raised"}
          /\ records' = records
          /\ LET res == build_sobject_collection_payload(
                            records, object_name, operation, external_id_field)
             IN  /\ error' = res.error
                 /\ error' = NoError => payload' = res.value]_vars

\* C26 witness: an update batch whose first record was made into a wire
\* record before the second, which has no Id, made the builder raise; the
\* first record has a field named like the metadata key.
BuildLeavesBatchUnchangedWitness ==
    /\ pc = "raised"
    /\ operation = "update"
    /\ Len(records) = 2
    /\ DOMAIN records[1] = {"Id", "attributes"}
    /\ "Id" \notin DOMAIN records[2]

-----------------------------------------------------------------------------
(* Further claims about perform_operation_in_batches, under SpecRun *)

\* no batch of the run had a number of responses other than its number of
\* records
CountsMatched == \A j \in 1..Len(log) : log[j] # CountMismatch

\* C27: in a run that has returned, the successes and failures together
\* are no more than the input records; when in addition every batch got as
\* many responses as it has records, every input position is the origin of
\* exactly one entry, of one of the two lists, so that the two lengths add
\* up to the number of input records.
EveryRecordAccountedFor ==
    pc = "done" =>
        /\ Len(returned[1].successes) + Len(returned[1].failures) <= Len(data)
        /\ CountsMatched =>
              /\ Len(returned[1].successes) + Len(returned[1].failures) = Len(data)
              /\ Len(origin.successes) = Len(returned[1].successes)
              /\ Len(origin.failures) = Len(returned[1].failures)
              /\ Range(origin.successes) \cup Range(origin.failures) = 1..Len(data)
              /\ Range(origin.successes) \cap Range(origin.failures) = {}
              /\ Increasing(origin.successes)
              /\ Increasing(origin.failures)

-----------------------------------------------------------------------------
(* Further claims about the reconciliation, under SpecReconcile *)

\* the message of an error entry, empty when it has none
MessageOrEmpty(e) == IF "message" \in DOMAIN e THEN e["message"] ELSE <<>>

\* the messages of the entries, each followed by "; " except the last
RECURSIVE LenientSemicolons(_)
LenientSemicolons(errors) ==
    IF errors = <<>> THEN <<>>
    ELSE IF Len(errors) = 1 THEN MessageOrEmpty(Head(errors))
    ELSE MessageOrEmpty(Head(errors)) \o <<"; ">> \o LenientSemicolons(Tail(errors))

\* C28: reconciling never raises on an incomplete response: a response
\* without a success flag gets a failure entry, a failure without an error
\* list has the empty message, and an error entry without a message adds
\* the empty string to the messages joined with "; ".
IncompleteResponsesTolerated ==
    pc \in {"reconciled", "reconcile_raised"} =>
        /\ pc = "reconciled"
        /\ error = NoError
        /\ \A i \in 1..Min(Len(records), Len(Responses)) :
              "success" \notin DOMAIN Responses[i] => i \in Range(origin.failures)
        /\ Len(all_failures) = Len(origin.failures)
        /\ \A j \in 1..Len(origin.failures) :
              LET response == Responses[origin.failures[j]]
              IN  all_failures[j]["error"] =
                      IF "errors" \in DOMAIN response
                      THEN LenientSemicolons(response["errors"])
                      ELSE <<>>

\* C28 witness: a response without a success flag whose first error entry
\* has no message, next to a failure without an error list.
IncompleteResponsesToleratedWitness ==
    /\ pc = "reconciled"
    /\ Len(records) = 2
    /\ Responses = <<RespNoFlag, RespNoErrorList>>
    /\ all_failures[1]["error"] = <<"; ", "bad">>
    /\ all_failures[2]["error"] = <<>>

-----------------------------------------------------------------------------
(* The raw result of a dispatch, under SpecRun *)

\* the raw result is a mapping that has no list under "results"
NoResultsKey == result.type = "dict" /\ "results" \notin DOMAIN result.dict

\* the response list the claim takes from the raw result
Normalised ==
    IF result.type = "list" THEN result.items
    ELSE IF "results" \in DOMAIN result.dict THEN result.dict["results"]
    ELSE <<>>

\* the responses of Normalised that are paired with a record of the batch
\* and have a true success flag, or have not
Accepted(flag) ==
    {i \in 1..Min(Len(records), Len(Normalised)) : FlagTrue(Normalised[i]) = flag}

\* C29: the reconcile step works on the raw result normalised: on the list
\* itself, on the list under "results" of a mapping, or on no responses for a
\* mapping without that key.  Each list grows by one entry for each response
\* paired with a record; for a mapping without "results" neither list
\* changes, the count-mismatch warning is all that is logged, and the run
\* goes on with the loop.
RawResultNormalised ==
    [][pc = "reconcile" =>
          /\ Len(all_successes') = Len(all_successes) + Cardinality(Accepted(TRUE))
          /\ Len(all_failures') = Len(all_failures) + Cardinality(Accepted(FALSE))
          /\ log' = IF Len(Normalised) # Len(records)
                    THEN log \o <<CountMismatch>> ELSE log
          /\ pc' = "next"
          /\ error' = NoError
          /\ NoResultsKey =>
                /\ all_successes' = all_successes
                /\ all_failures' = all_failures
                /\ log' = log \o <<CountMismatch>>]_vars

\* C29 witness: the first batch was answered by a mapping without "results",
\* left no entry and one warning, and the second batch is in hand.
RawResultNormalisedWitness ==
    /\ pc = "build"
    /\ chunk_idx = 2
    /\ result = DictResult([done |-> TRUE])
    /\ all_successes = <<>>
    /\ all_failures = <<>>
    /\ log = <<CountMismatch>>
    /\ Len(calls) = 1

====
